---- MODULE Spec2Model ----
(***************************************************************************)
(* The flipbook viewer of esselle-retail-viewer                            *)
(* (src/components/FlipbookViewer.tsx) as a state machine: one viewer      *)
(* session (one mount of FlipbookViewer for one publication), its React    *)
(* state, the debounced window size, the document loader (react-pdf        *)
(* Document), the flip surface (react-pageflip HTMLFlipBook), the zoom     *)
(* layer and what each render puts on the screen.                          *)
(*                                                                         *)
(* Numbers with a fraction are kept exact: percentages are integers over   *)
(* 100 and the pixel ratio is kept in tenths.                              *)
(***************************************************************************)
EXTENDS Integers, Sequences, FiniteSets, TLC

VARIABLES
    mounted,        \* the FlipbookViewer component is mounted
    booklet,        \* the booklet prop: [id, url, rev] (rev: object identity)
    viewDeps,       \* dependency value the recordView effect last ran with
    viewCalls,      \* number of recordView(booklet.id) calls of this mount
    viewLog,        \* loadStatus at the moment of each recordView call
    doc,            \* the document behind booklet.url (what the loader will find)
    docPhase,       \* Document loader: "idle", "loading", "getPage", "settled"
    docFile,        \* the file prop the Document component last loaded
    loadsStarted,   \* number of fetch+parse runs started by the Document
    numPages,       \* useState numPages
    pdfDimensions,  \* useState pdfDimensions (Null or [width, height])
    currentPage,    \* useState currentPage
    isFullscreen,   \* useState isFullscreen
    loadStatus,     \* useState loadStatus
    win,            \* window.innerWidth / innerHeight
    timerPending,   \* the debounce timeout of useDebouncedResize is armed
    windowSize,     \* useDebouncedResize state (Null or [width, height])
    dims,           \* useMemo dims (Null or the page box)
    book,           \* the mounted HTMLFlipBook instance (or NoBook)
    zoom,           \* zoom level of the TransformWrapper
    fsElement,      \* document.fullscreenElement is set
    pages,          \* page indices whose <Page> is mounted (being rasterized)
    controls,       \* the controls a click can act on in the current render
    debounce,       \* the resize hook's clock and event counts (kept by the
                    \* timed specification only)
    isDemo,         \* services/firebase.ts: isDemo (local demo mode)
    clock,          \* Date.now()
    store,          \* the booklets by id: the Firestore collection, or the
                    \* localStorage list of the demo mode
    viewedKeys,     \* ids with an esselle_viewed_<id> key in localStorage
    lookup,         \* the last getBookletById call and what it returned
    recordLog,      \* recordView calls made, and those whose write was stored
    route           \* ViewerRoute: its route parameter, props, state and the
                    \* getBookletById calls of its effect that are in flight

\* the state of the services module and of the browser storage behind it
serviceVars == << isDemo, clock, store, viewedKeys, lookup, recordLog >>

\* what a step of the viewer leaves alone
appVars == << debounce, serviceVars, route >>

\* the state of a FlipbookViewer session
viewerVars == << mounted, booklet, viewDeps, viewCalls, viewLog, doc, docPhase,
                docFile, loadsStarted, numPages, pdfDimensions, currentPage,
                isFullscreen, loadStatus, win, timerPending, windowSize, dims,
                book, zoom, fsElement, pages, controls >>

vars == << viewerVars, debounce, serviceVars, route >>

----------------------------------------------------------------------------
(* Bounds of the model *)

\* largest page count of a document
MaxPages == 6

\* the debounce delay of the resize hook, in clock ticks
DelayTicks == 3

\* side of the grid of small viewport / page sizes the sizer is also tried on
MaxSmall == 6

(* Program constants *)

\* MAX_HEIGHT = availableH * 0.82
HeightPct == 82
\* single-page mode: availableW * 0.90
SinglePct == 90
\* spread mode: availableW * 0.42
SpreadPct == 42
\* isLandscapeDoc = ratio > 1.2 (as a percentage)
LandscapePct == 120
\* isMobile = windowSize.width < 768
MobileWidth == 768
\* pixelRatio: isMobile ? 1.5 : 2 (in tenths)
MobilePixelRatio == 15
DesktopPixelRatio == 20
\* fallback page size when getPage fails
FallbackWidth == 600
FallbackHeight == 800
\* const range = 2
RenderRange == 2

\* minScale={0.5}, maxScale={4}, initialScale={1} (in tenths)
MinScale == 5
MaxScale == 40
InitialScale == 10

\* saturation of the call counters (recordView calls, loads started)
MaxCalls == 3

\* latest time on the clock (Date.now() runs from 1 to MaxTime)
MaxTime == 3

Null == [null |-> TRUE]
NoBook == [none |-> TRUE]
NoFile == [nofile |-> TRUE]

\* the resize hook's clock at the mount: age, ticks since the timeout was
\* armed; quiet, ticks since the last resize event; burst, resize events since
\* the last setSize; merged, resize events the last setSize answered
NoTiming == [age |-> 0, quiet |-> 0, burst |-> 0, merged |-> 0]

Min(a, b) == IF a < b THEN a ELSE b
Bump(n) == Min(n + 1, MaxCalls)

----------------------------------------------------------------------------
(* Viewport Sizer: the dims memo. The source computes in IEEE doubles; here *)
(* the products and quotients are exact fractions, floored once. The two    *)
(* agree except where an exact quotient is a whole number that the doubles  *)
(* miss from below (1920 x 1920 with a 4:5 page: 1006 instead of 1008).     *)

\* const isLandscapeDoc = ratio > 1.2, ratio = width / height
IsLandscapeDocInverted(pd) == 100 * pd.width < LandscapePct * pd.height
IsLandscapeDoc(pd) == 100 * pd.width > LandscapePct * pd.height

\* const isMobile = windowSize.width < 768
IsMobile(ws) == ws.width < MobileWidth

\* usePortrait: isMobile || isLandscapeDoc
UsePortraitBoth(ws, pd) == IsMobile(ws) /\ IsLandscapeDoc(pd)
UsePortrait(ws, pd) == IsMobile(ws) \/ IsLandscapeDoc(pd)

\* MAX_WIDTH_PER_PAGE as a percentage of availableW
WidthCapPctSwapped(ws, pd) == IF UsePortrait(ws, pd) THEN SpreadPct ELSE SinglePct
WidthCapPct(ws, pd) == IF UsePortrait(ws, pd) THEN SinglePct ELSE SpreadPct

\* if (pageWidth > MAX_WIDTH_PER_PAGE), with pageWidth = MAX_HEIGHT * ratio:
\* H*0.82*(pw/ph) > W*cap  <=>  82*H*pw > cap*W*ph   (ph > 0)
WidthBindsNever(ws, pd) == FALSE
WidthBinds(ws, pd) ==
    HeightPct * ws.height * pd.width > WidthCapPct(ws, pd) * ws.width * pd.height

\* pageWidth before flooring, as a fraction: MAX_WIDTH_PER_PAGE when the width
\* cap binds, MAX_HEIGHT * ratio otherwise
FitWidthNum(ws, pd) ==
    IF WidthBinds(ws, pd) THEN WidthCapPct(ws, pd) * ws.width
                          ELSE HeightPct * ws.height * pd.width
FitWidthDen(ws, pd) == IF WidthBinds(ws, pd) THEN 100 ELSE 100 * pd.height

\* pageHeight before flooring, as a fraction: pageWidth / ratio when the width
\* cap binds, MAX_HEIGHT otherwise
FitHeightNum(ws, pd) ==
    IF WidthBinds(ws, pd) THEN WidthCapPct(ws, pd) * ws.width * pd.height
                          ELSE HeightPct * ws.height
FitHeightDen(ws, pd) == IF WidthBinds(ws, pd) THEN 100 * pd.width ELSE 100

\* Math.floor
Floor(num, den) == num \div den

\* if (x % 2 !== 0) x -= 1
RoundEven(x) == IF x % 2 # 0 THEN x - 1 ELSE x

\* the body of the dims memo once windowSize and pdfDimensions are known
PageBox(ws, pd) ==
    [ pageWidth   |-> RoundEven(Floor(FitWidthNum(ws, pd), FitWidthDen(ws, pd))),
      pageHeight  |-> RoundEven(Floor(FitHeightNum(ws, pd), FitHeightDen(ws, pd))),
      usePortrait |-> UsePortrait(ws, pd),
      pixelRatio  |-> IF IsMobile(ws) THEN MobilePixelRatio ELSE DesktopPixelRatio ]

\* if (!windowSize || !pdfDimensions) return null
DimsReady(ws, pd) == ws # Null /\ pd # Null

\* const dims = useMemo(..., [windowSize, pdfDimensions])
ComputeDims(ws, pd) == IF DimsReady(ws, pd) THEN PageBox(ws, pd) ELSE Null

\* const transformKey = dims ? `${pageWidth}-${pageHeight}-${usePortrait}` : 'loading'
TransformKey(d) ==
    IF d # Null THEN << d.pageWidth, d.pageHeight, d.usePortrait >> ELSE << "loading" >>

----------------------------------------------------------------------------
(* Render Virtualizer *)

\* if (pageIndex < 2) return true
AlwaysRenderedCoverOnly(pageIndex) == pageIndex < 1
AlwaysRendered(pageIndex) == pageIndex < 2

\* pageIndex >= current - range && pageIndex <= current + range + 1
InRenderWindowWide(pageIndex, current) ==
    pageIndex >= current - RenderRange - 1 /\ pageIndex <= current + RenderRange + 1
InRenderWindowSymmetric(pageIndex, current) ==
    pageIndex >= current - RenderRange /\ pageIndex <= current + RenderRange
InRenderWindow(pageIndex, current) ==
    pageIndex >= current - RenderRange /\ pageIndex <= current + RenderRange + 1

shouldRenderPage(pageIndex, current, total) ==
    AlwaysRendered(pageIndex) \/ InRenderWindow(pageIndex, current)

----------------------------------------------------------------------------
(* Flip surface: HTMLFlipBook (react-pageflip) as FlipbookViewer configures it: *)
(* showCover, startPage 0, usePortrait from dims, flipping by flipNext/flipPrev *)

\* a freshly mounted book: startPage: 0, mounted under the current transformKey,
\* width: dims?.pageWidth || 300, height: dims?.pageHeight || 400
NewBook(d) == [ key |-> TransformKey(d), page |-> 0, flip |-> "none",
                portrait |-> d.usePortrait,
                width |-> IF d.pageWidth = 0 THEN 300 ELSE d.pageWidth,
                height |-> IF d.pageHeight = 0 THEN 400 ELSE d.pageHeight ]

\* first page index of the spread after / before the one starting at p
\* (showCover: the cover is a spread of its own, then pairs 1-2, 3-4, ...)
NextSpreadPage(b) ==
    IF b.portrait THEN b.page + 1 ELSE IF b.page = 0 THEN 1 ELSE b.page + 2
PrevSpreadPage(b) ==
    IF b.portrait THEN b.page - 1 ELSE IF b.page <= 1 THEN 0 ELSE b.page - 2

\* flipNext / flipPrev start a turn only when there is a spread to turn to
CanFlipUnclamped(b, dir, n) == TRUE
CanFlip(b, dir, n) ==
    IF dir = "next" THEN NextSpreadPage(b) <= n - 1 ELSE b.page >= 1

\* the page index the turn in progress settles on
FlipTarget(b) == IF b.flip = "next" THEN NextSpreadPage(b) ELSE PrevSpreadPage(b)

\* the turn animation completes: the book shows the new spread
Settled(b) == IF b.flip = "none" THEN b
              ELSE [b EXCEPT !.page = FlipTarget(b), !.flip = "none"]

\* flipNext()/flipPrev(): a turn still running is finished first, then the
\* new one starts if the direction allows it
Flipped(b, dir, n) ==
    LET s == Settled(b)
    IN  IF CanFlip(s, dir, n) THEN [s EXCEPT !.flip = dir] ELSE s

\* the page indices of the spread the book shows
VisiblePages(b, n) ==
    IF b = NoBook THEN {}
    ELSE IF b.portrait \/ b.page = 0 THEN {b.page}
    ELSE {b.page, b.page + 1} \cap (0 .. n - 1)

\* onFlip={(e) => setCurrentPage(e.data)}
OnFlipOneBased(data) == data + 1
OnFlip(data) == data

\* handlePageClick: index 0 and the even indices turn forward, the odd ones back
PageClickDirAlwaysNext(index) == "next"
PageClickDir(index) ==
    IF index = 0 THEN "next" ELSE IF index % 2 = 0 THEN "next" ELSE "prev"

----------------------------------------------------------------------------
(* What a render of FlipbookViewer puts on the screen *)

\* if (!windowSize) return null
ViewerShown(m, ws) == m /\ ws # Null

\* {(loadStatus === 'loading' || !dims) && <loading overlay>}
LoadingShown(m, ws, d, ls) == ViewerShown(m, ws) /\ (ls = "loading" \/ d = Null)

\* {loadStatus === 'error' && <error overlay>}
ErrorShown(m, ws, ls) == ViewerShown(m, ws) /\ ls = "error"

\* {dims && loadStatus === 'success' && <TransformWrapper ...>}
WrapperShown(m, ws, d, ls) == ViewerShown(m, ws) /\ d # Null /\ ls = "success"

\* {numPages > 0 && <HTMLFlipBook ...>}
FlipSurfaceShown(m, ws, d, ls, n) == WrapperShown(m, ws, d, ls) /\ n > 0

PagesOfUnguarded(m, ws, d, ls, n, cur) ==
    IF ViewerShown(m, ws) /\ n > 0
    THEN { i \in 0 .. n - 1 : shouldRenderPage(i, cur, n) }
    ELSE {}

\* the <Page> components of this render: the slots shouldRenderPage selects
PagesOf(m, ws, d, ls, n, cur) ==
    IF FlipSurfaceShown(m, ws, d, ls, n)
    THEN { i \in 0 .. n - 1 : shouldRenderPage(i, cur, n) }
    ELSE {}

\* the header: close button, title (onClose), Share, Download
HeaderControls(m, ws) ==
    IF ViewerShown(m, ws) THEN {"close", "title", "share", "download"} ELSE {}

\* the error overlay's Close button
ErrorControls(m, ws, ls) == IF ErrorShown(m, ws, ls) THEN {"errorClose"} ELSE {}

\* disabled={currentPage === 0} / disabled={currentPage >= numPages - 1}
PrevDisabled(cur) == cur = 0
NextDisabled(cur, n) == cur >= n - 1

ToolbarControlsUnguarded(m, ws, d, ls, n, cur) ==
    IF ViewerShown(m, ws)
    THEN {"zoomIn", "zoomOut", "reset", "fullscreen"}
         \cup (IF PrevDisabled(cur) THEN {} ELSE {"prev"})
         \cup (IF NextDisabled(cur, n) THEN {} ELSE {"next"})
         \cup (IF n > 0 THEN {"page"} ELSE {})
    ELSE {}

\* the controls overlay inside the TransformWrapper, and the pages of the book
ToolbarControls(m, ws, d, ls, n, cur) ==
    IF WrapperShown(m, ws, d, ls)
    THEN {"zoomIn", "zoomOut", "reset", "fullscreen"}
         \cup (IF PrevDisabled(cur) THEN {} ELSE {"prev"})
         \cup (IF NextDisabled(cur, n) THEN {} ELSE {"next"})
         \cup (IF n > 0 THEN {"page"} ELSE {})
    ELSE {}

ControlsOf(m, ws, d, ls, n, cur) ==
    HeaderControls(m, ws) \cup ErrorControls(m, ws, ls)
        \cup ToolbarControls(m, ws, d, ls, n, cur)

\* the flip surface after a render: unmounted when not shown, mounted anew when
\* it appears or when the TransformWrapper's key changed, kept otherwise
BookAfterRender(b, m, ws, d, ls, n) ==
    IF ~FlipSurfaceShown(m, ws, d, ls, n) THEN NoBook
    ELSE IF b = NoBook \/ b.key # TransformKey(d) THEN NewBook(d)
    ELSE b

\* the zoom layer: initialScale on every mount of the TransformWrapper
ZoomAfterRender(z, b, m, ws, d, ls, n) ==
    IF BookAfterRender(b, m, ws, d, ls, n) = b /\ b # NoBook THEN z ELSE InitialScale

----------------------------------------------------------------------------
(* Effects *)

\* useEffect(() => { recordView(booklet.id) }, [booklet.id]): the dependency
\* list, given the props and state the effect could depend on
ViewEffectDepsObject(bk, ls) == [id |-> bk.id, rev |-> bk.rev]
ViewEffectDepsStatus(bk, ls) == [id |-> bk.id, status |-> ls]
ViewEffectDeps(bk, ls) == [id |-> bk.id]

\* <Document file={booklet.url} ...>: the Document loads when its file changes;
\* a string is the same file as long as it is the same url, an object made by
\* the render would be a new file on every render
DocumentFileFreshObject(bk, prev) ==
    IF prev = [url |-> bk.url, obj |-> 0] THEN [url |-> bk.url, obj |-> 1]
    ELSE [url |-> bk.url, obj |-> 0]
DocumentFile(bk, prev) == [url |-> bk.url]

----------------------------------------------------------------------------
(* The inputs of a session *)

Size(w, h) == [width |-> w, height |-> h]

\* window sizes the session is tried on
Viewports == { Size(1920, 1080), Size(1024, 600), Size(375, 812) }

\* first-page sizes of the documents (A4 portrait, a landscape sheet)
PageSizes == { Size(595, 842), Size(800, 500) }

\* a document that cannot be fetched or parsed
FailDoc == [ok |-> FALSE, numPages |-> 0, pageOk |-> FALSE, size |-> Size(1, 1)]

\* what booklet.url resolves to: a failing document, a document whose first
\* page cannot be queried, or a sound document
Docs == {FailDoc}
        \cup { [ok |-> TRUE, numPages |-> n, pageOk |-> FALSE, size |-> Size(1, 1)] :
                 n \in 1 .. MaxPages }
        \cup { [ok |-> TRUE, numPages |-> n, pageOk |-> TRUE, size |-> sz] :
                 n \in 1 .. MaxPages, sz \in PageSizes }

TheBooklet == [id |-> "b1", url |-> "u1", rev |-> 0]

----------------------------------------------------------------------------
(* App.tsx: ViewerRoute, the element of the route /view/:id *)

\* the effect's run of loadBooklet for the route r, after the cleanup of the
\* run before it (isMounted = false for the call that run left in flight):
\* the booklet of the booklets prop if the id is in it, a getBookletById call
\* otherwise, with setStatus('loading') only if the state holds no booklet
LoadBooklet(r) ==
    LET superseded == { [f EXCEPT !.live = FALSE] : f \in r.fetches }
    IN  IF r.id \in r.booklets
        THEN [r EXCEPT !.booklet = [id |-> r.id], !.status = "found",
                       !.fetches = superseded]
        ELSE [r EXCEPT !.status = IF r.booklet = Null THEN "loading" ELSE @,
                       !.fetches = superseded \cup {[id |-> r.id, live |-> TRUE]}]

\* ViewerRoute as it mounts on /view/id with the booklets prop list
MountedRoute(id, list) ==
    LoadBooklet([ mounted |-> TRUE, id |-> id, booklets |-> list, booklet |-> Null,
                  status |-> "loading", fetches |-> {} ])

\* the route that shows the viewer of the session, and no route
RouteOpen == MountedRoute("b1", {"b1"})
RouteClosed == [ mounted |-> FALSE, id |-> "b1", booklets |-> {}, booklet |-> Null,
                 status |-> "loading", fetches |-> {} ]

\* the render of ViewerRoute reaches <FlipbookViewer booklet={booklet} ...>
ViewerRendered(r) == r.mounted /\ r.status = "found" /\ r.booklet # Null

----------------------------------------------------------------------------
(* services/firebase.ts: the booklets and their counters *)

\* no booklet under an id; no getBookletById call made yet
NoDoc == [nodoc |-> TRUE]
NoLookup == [nolookup |-> TRUE]

BookletIds == {"b1", "b2"}
Statuses == {"published", "draft", "scheduled"}

\* uploadPDF: the demo mode stores metadata.scheduledAt as it is given, the
\* Firestore mode clears it unless the status is 'scheduled' (0: none)
ScheduledAtSaved(demo, st, t) == IF ~demo /\ st # "scheduled" THEN 0 ELSE t

\* the booklet uploadPDF stores
NewDoc(demo, st, t) ==
    [ status |-> st, scheduledAt |-> ScheduledAtSaved(demo, st, t),
      views |-> 0, uniqueReaders |-> 0 ]

\* getBookletById(id) for the booklet d behind id at time now; fails: getDoc
\* throws (Firestore mode only)
getBookletById(demo, d, now, fails) ==
    IF demo
    THEN IF d = NoDoc THEN Null
         ELSE IF d.status = "draft" THEN Null
         ELSE d
    ELSE IF fails \/ d = NoDoc THEN Null
         ELSE IF d.status = "draft" THEN Null
         ELSE IF d.status = "scheduled" /\ d.scheduledAt # 0 /\ now < d.scheduledAt
              THEN Null
         ELSE d

\* recordView: const isUnique = !localStorage.getItem(`esselle_viewed_${id}`)
IsUniqueAlways(keys, id) == TRUE
IsUnique(keys, id) == id \notin keys

\* the write of recordView reaches the store: the demo mode rewrites the local
\* list; in the Firestore mode updateDoc can be rejected (ok = FALSE), which
\* recordView swallows
ViewStored(demo, ok) == demo \/ ok

\* stats.views++ (increment(1)), and stats.uniqueReaders++ for a unique reader
ViewCounted(d, unique) ==
    [d EXCEPT !.views = @ + 1,
              !.uniqueReaders = IF unique THEN @ + 1 ELSE @]

\* no recordView call made yet
NoCalls == [id \in BookletIds |-> [calls |-> 0, writes |-> 0]]

\* the services as the viewer specifications leave them: nothing stored, no
\* call made
ServiceAtRest ==
    /\ isDemo = FALSE
    /\ clock = 1
    /\ store = [id \in BookletIds |-> NoDoc]
    /\ viewedKeys = {}
    /\ lookup = NoLookup
    /\ recordLog = NoCalls

----------------------------------------------------------------------------
(* The session *)

\* the state right after the mount: the first render returns null (windowSize
\* is not known yet), the resize hook has armed its first timeout and the
\* recordView effect has run
Init ==
    /\ mounted = TRUE
    /\ booklet = TheBooklet
    /\ viewDeps = ViewEffectDeps(TheBooklet, "loading")
    /\ viewCalls = 1
    /\ viewLog = << "loading" >>
    /\ doc \in Docs
    /\ docPhase = "idle"
    /\ docFile = NoFile
    /\ loadsStarted = 0
    /\ numPages = 0
    /\ pdfDimensions = Null
    /\ currentPage = 0
    /\ isFullscreen = FALSE
    /\ loadStatus = "loading"
    /\ win \in Viewports
    /\ timerPending = TRUE
    /\ windowSize = Null
    /\ dims = Null
    /\ book = NoBook
    /\ zoom = InitialScale
    /\ fsElement = FALSE
    /\ pages = {}
    /\ controls = {}
    /\ debounce = NoTiming
    /\ ServiceAtRest
    /\ route = RouteOpen

\* const windowSize = useDebouncedResize(150): a render sees the size the hook
\* last stored (size), not the size the window has at that moment (w)
LiveWindowSize(size, w) == w
DebouncedSize(size, w) == size

\* the render that follows a state change, and the effects that run after it;
\* b, z and phase are the flip surface, the zoom and the loader phase the
\* handler left behind
RenderAndEffects(b, z, phase) ==
    /\ dims' = ComputeDims(DebouncedSize(windowSize', win'), pdfDimensions')
    /\ book' = BookAfterRender(b, mounted', windowSize', dims', loadStatus', numPages')
    /\ zoom' = ZoomAfterRender(z, b, mounted', windowSize', dims', loadStatus', numPages')
    /\ pages' = PagesOf(mounted', windowSize', dims', loadStatus', numPages', currentPage')
    /\ controls' = ControlsOf(mounted', windowSize', dims', loadStatus', numPages',
                              currentPage')
    /\ IF mounted' /\ ViewEffectDeps(booklet', loadStatus') # viewDeps
       THEN /\ viewDeps' = ViewEffectDeps(booklet', loadStatus')
            /\ viewCalls' = Bump(viewCalls)
            /\ viewLog' = IF Len(viewLog) < MaxCalls
                          THEN Append(viewLog, loadStatus') ELSE viewLog
       ELSE UNCHANGED << viewDeps, viewCalls, viewLog >>
    /\ IF ViewerShown(mounted', windowSize')
          /\ DocumentFile(booklet', docFile) # docFile
       THEN /\ docFile' = DocumentFile(booklet', docFile)
            /\ loadsStarted' = Bump(loadsStarted)
            /\ docPhase' = "loading"
       ELSE /\ UNCHANGED << docFile, loadsStarted >>
            /\ docPhase' = phase

\* window 'resize' event: handleResize re-arms the timeout
WindowResize(sz) ==
    /\ mounted
    /\ win' = sz
    /\ timerPending' = TRUE
    /\ UNCHANGED appVars
    /\ UNCHANGED << mounted, booklet, viewDeps, viewCalls, viewLog, doc, docPhase,
                    docFile, loadsStarted, numPages, pdfDimensions, currentPage,
                    isFullscreen, loadStatus, windowSize, dims, book, zoom,
                    fsElement, pages, controls >>

\* the timeout fires: setSize({ width: innerWidth, height: innerHeight })
ResizeTimerFire ==
    /\ mounted
    /\ timerPending
    /\ timerPending' = FALSE
    /\ windowSize' = win
    /\ UNCHANGED appVars
    /\ UNCHANGED << mounted, booklet, doc, numPages, pdfDimensions, currentPage,
                    isFullscreen, loadStatus, win, fsElement >>
    /\ RenderAndEffects(book, zoom, docPhase)

\* onDocumentLoadSuccess up to its await: setNumPages(pdf.numPages)
DocumentLoadSuccess ==
    /\ mounted
    /\ docPhase = "loading"
    /\ doc.ok
    /\ numPages' = doc.numPages
    /\ UNCHANGED appVars
    /\ UNCHANGED << mounted, booklet, doc, pdfDimensions, currentPage, isFullscreen,
                    loadStatus, win, timerPending, windowSize, fsElement >>
    /\ RenderAndEffects(book, zoom, "getPage")

\* onDocumentLoadError: setLoadStatus('error')
DocumentLoadError ==
    /\ mounted
    /\ docPhase = "loading"
    /\ ~doc.ok
    /\ loadStatus' = "error"
    /\ UNCHANGED appVars
    /\ UNCHANGED << mounted, booklet, doc, numPages, pdfDimensions, currentPage,
                    isFullscreen, win, timerPending, windowSize, fsElement >>
    /\ RenderAndEffects(book, zoom, "settled")

\* the page size onDocumentLoadSuccess stores: the first page's viewport at
\* scale 1, or the fallback of its catch block
FirstPageSize(d) ==
    IF d.pageOk THEN d.size ELSE Size(FallbackWidth, FallbackHeight)

\* the load status onDocumentLoadSuccess ends with, in its try and in its catch
StatusAfterGetPageStrict(d) == IF d.pageOk THEN "success" ELSE "error"
StatusAfterGetPage(d) == "success"

\* onDocumentLoadSuccess after its await: pdf.getPage(1) resolved or rejected;
\* setPdfDimensions and setLoadStatus are rendered together
GetPageSettles ==
    /\ mounted
    /\ docPhase = "getPage"
    /\ pdfDimensions' = FirstPageSize(doc)
    /\ loadStatus' = StatusAfterGetPage(doc)
    /\ UNCHANGED appVars
    /\ UNCHANGED << mounted, booklet, doc, numPages, currentPage, isFullscreen,
                    win, timerPending, windowSize, fsElement >>
    /\ RenderAndEffects(book, zoom, "settled")

\* a state setter called on the unmounted component: React drops the update
\* (old is the value the state had, new the value handed to the setter)
SetOnUnmountedApplies(old, new) == new
SetOnUnmounted(old, new) == old

\* pdf.getPage(1) settles after the unmount: onDocumentLoadSuccess resumes and
\* calls setPdfDimensions and setLoadStatus on the unmounted component
GetPageAfterUnmount ==
    /\ ~mounted
    /\ docPhase = "getPage"
    /\ docPhase' = "settled"
    /\ pdfDimensions' = SetOnUnmounted(pdfDimensions, FirstPageSize(doc))
    /\ loadStatus' = SetOnUnmounted(loadStatus, StatusAfterGetPage(doc))
    /\ UNCHANGED appVars
    /\ UNCHANGED << mounted, booklet, viewDeps, viewCalls, viewLog, doc, docFile,
                    loadsStarted, numPages, currentPage, isFullscreen, win,
                    timerPending, windowSize, dims, book, zoom, fsElement, pages,
                    controls >>

\* a flip command reaches the book: handleNext / handlePrev call flipNext /
\* flipPrev and set no state themselves; a turn the command cuts short settles
\* first and reports its page through onFlip
PageAfterCommandEager(b, cur, dir, n) ==
    IF CanFlip(Settled(b), dir, n) THEN OnFlip(FlipTarget(Flipped(b, dir, n)))
    ELSE OnFlip(Settled(b).page)
PageAfterCommand(b, cur, dir, n) ==
    IF b.flip = "none" THEN cur ELSE OnFlip(Settled(b).page)

FlipCommand(dir) ==
    /\ book # NoBook
    /\ currentPage' = PageAfterCommand(book, currentPage, dir, numPages)
    /\ UNCHANGED appVars
    /\ UNCHANGED << mounted, booklet, doc, numPages, pdfDimensions, isFullscreen,
                    loadStatus, win, timerPending, windowSize, fsElement >>
    /\ RenderAndEffects(Flipped(book, dir, numPages), zoom, docPhase)

\* the arrow buttons and the toolbar's chevrons (disabled ones take no click)
ClickNext == mounted /\ "next" \in controls /\ FlipCommand("next")
ClickPrev == mounted /\ "prev" \in controls /\ FlipCommand("prev")

\* a click on a page of the visible spread: handlePageClick(index)
PageClick(index) ==
    /\ mounted
    /\ "page" \in controls
    /\ index \in VisiblePages(book, numPages)
    /\ FlipCommand(PageClickDir(index))

\* the turn animation completes: the book shows the new spread and onFlip runs
FlipSettles ==
    /\ mounted
    /\ book # NoBook
    /\ book.flip # "none"
    /\ currentPage' = OnFlip(Settled(book).page)
    /\ UNCHANGED appVars
    /\ UNCHANGED << mounted, booklet, doc, numPages, pdfDimensions, isFullscreen,
                    loadStatus, win, timerPending, windowSize, fsElement >>
    /\ RenderAndEffects(Settled(book), zoom, docPhase)

\* zoomIn / zoomOut / resetTransform of the TransformWrapper (one step doubles
\* or halves the scale, within minScale and maxScale)
ZoomedIn(z) == Min(z * 2, MaxScale)
ZoomedOut(z) == IF z \div 2 < MinScale THEN MinScale ELSE z \div 2

ZoomChange(z) ==
    /\ zoom' = z
    /\ UNCHANGED appVars
    /\ UNCHANGED << mounted, booklet, viewDeps, viewCalls, viewLog, doc, docPhase,
                    docFile, loadsStarted, numPages, pdfDimensions, currentPage,
                    isFullscreen, loadStatus, win, timerPending, windowSize, dims,
                    book, fsElement, pages, controls >>

ZoomIn == mounted /\ "zoomIn" \in controls /\ ZoomChange(ZoomedIn(zoom))
ZoomOut == mounted /\ "zoomOut" \in controls /\ ZoomChange(ZoomedOut(zoom))
ResetTransform == mounted /\ "reset" \in controls /\ ZoomChange(InitialScale)

\* toggleFullScreen: requestFullscreen (which the platform may reject) and
\* setIsFullscreen(true), or exitFullscreen and setIsFullscreen(false)
ToggleFullScreen(granted) ==
    /\ mounted
    /\ "fullscreen" \in controls
    /\ IF ~fsElement
       THEN fsElement' = granted /\ isFullscreen' = TRUE
       ELSE fsElement' = FALSE /\ isFullscreen' = FALSE
    /\ UNCHANGED appVars
    /\ UNCHANGED << mounted, booklet, doc, numPages, pdfDimensions, currentPage,
                    loadStatus, win, timerPending, windowSize >>
    /\ RenderAndEffects(book, zoom, docPhase)

\* the user leaves fullscreen by the platform's own means (Escape)
PlatformExitFullscreen ==
    /\ mounted
    /\ fsElement
    /\ fsElement' = FALSE
    /\ UNCHANGED appVars
    /\ UNCHANGED << mounted, booklet, viewDeps, viewCalls, viewLog, doc, docPhase,
                    docFile, loadsStarted, numPages, pdfDimensions, currentPage,
                    isFullscreen, loadStatus, win, timerPending, windowSize, dims,
                    book, zoom, pages, controls >>

\* ViewerRoute's effect re-runs on a booklets-list update and hands the viewer
\* a new booklet object for the same id: setBooklet(found)
BookletsUpdate ==
    /\ mounted
    /\ booklet' = [booklet EXCEPT !.rev = 1 - booklet.rev]
    /\ UNCHANGED appVars
    /\ UNCHANGED << mounted, doc, numPages, pdfDimensions, currentPage, isFullscreen,
                    loadStatus, win, timerPending, windowSize, fsElement >>
    /\ RenderAndEffects(book, zoom, docPhase)

\* onClose (navigate('/')) or any other route change unmounts the viewer: the
\* resize hook clears its timeout, the Document drops a load still running
Close ==
    /\ mounted
    /\ mounted' = FALSE
    /\ timerPending' = FALSE
    /\ fsElement' = FALSE
    /\ UNCHANGED appVars
    /\ UNCHANGED << booklet, doc, numPages, pdfDimensions, currentPage, isFullscreen,
                    loadStatus, win, windowSize >>
    /\ RenderAndEffects(book, zoom,
                        IF docPhase = "loading" THEN "cancelled" ELSE docPhase)

Next ==
    \/ \E sz \in Viewports : WindowResize(sz)
    \/ ResizeTimerFire
    \/ DocumentLoadSuccess
    \/ DocumentLoadError
    \/ GetPageSettles
    \/ GetPageAfterUnmount
    \/ ClickNext
    \/ ClickPrev
    \/ \E index \in 0 .. MaxPages : PageClick(index)
    \/ FlipSettles
    \/ ZoomIn
    \/ ZoomOut
    \/ ResetTransform
    \/ \E granted \in BOOLEAN : ToggleFullScreen(granted)
    \/ PlatformExitFullscreen
    \/ BookletsUpdate
    \/ Close

Spec == Init /\ [][Next]_vars

----------------------------------------------------------------------------
(* The dims memo on its own: every window size and page size of a grid of   *)
(* small values and of the sizes above, with the rest of the session as it  *)
(* is at the mount                                                          *)

\* (a window can measure 0 x 0: innerWidth and innerHeight are never negative)
SizerViewports ==
    Viewports \cup { Size(767, 1024), Size(768, 1024) }
              \cup { Size(w, h) : w, h \in 0 .. MaxSmall }

SizerPageSizes ==
    PageSizes \cup { Size(FallbackWidth, FallbackHeight), Size(71, 100), Size(16, 10) }
              \cup { Size(w, h) : w, h \in 1 .. MaxSmall }

SizerInit ==
    /\ mounted = TRUE
    /\ booklet = TheBooklet
    /\ viewDeps = ViewEffectDeps(TheBooklet, "loading")
    /\ viewCalls = 1
    /\ viewLog = << "loading" >>
    /\ doc = FailDoc
    /\ docPhase = "idle"
    /\ docFile = NoFile
    /\ loadsStarted = 0
    /\ numPages = 0
    /\ currentPage = 0
    /\ isFullscreen = FALSE
    /\ loadStatus = "loading"
    /\ win \in SizerViewports
    /\ timerPending = FALSE
    /\ windowSize = win
    /\ pdfDimensions \in SizerPageSizes
    /\ dims = ComputeDims(windowSize, pdfDimensions)
    /\ book = NoBook
    /\ zoom = InitialScale
    /\ fsElement = FALSE
    /\ pages = {}
    /\ controls = {}
    /\ debounce = NoTiming
    /\ ServiceAtRest
    /\ route = RouteOpen

\* the memo recomputes for a new window size
SizerResize(sz) ==
    /\ win' = sz
    /\ windowSize' = sz
    /\ dims' = ComputeDims(sz, pdfDimensions)
    /\ UNCHANGED appVars
    /\ UNCHANGED << mounted, booklet, viewDeps, viewCalls, viewLog, doc, docPhase,
                    docFile, loadsStarted, numPages, pdfDimensions, currentPage,
                    isFullscreen, loadStatus, timerPending, book, zoom, fsElement,
                    pages, controls >>

\* the memo recomputes for a new first-page size
SizerPageSize(pd) ==
    /\ pdfDimensions' = pd
    /\ dims' = ComputeDims(windowSize, pd)
    /\ UNCHANGED appVars
    /\ UNCHANGED << mounted, booklet, viewDeps, viewCalls, viewLog, doc, docPhase,
                    docFile, loadsStarted, numPages, currentPage, isFullscreen,
                    loadStatus, win, timerPending, windowSize, book, zoom,
                    fsElement, pages, controls >>

SizerNext ==
    \/ \E sz \in SizerViewports : SizerResize(sz)
    \/ \E pd \in SizerPageSizes : SizerPageSize(pd)

SpecSizer == SizerInit /\ [][SizerNext]_vars

----------------------------------------------------------------------------
(* The virtualizer on a long document: a session whose 50-page document has  *)
(* loaded, turned page by page                                               *)

VirtDocs ==
    { [ok |-> TRUE, numPages |-> 50, pageOk |-> TRUE, size |-> sz] : sz \in PageSizes }

\* the state once the load has succeeded and the book has been mounted
VirtInit ==
    /\ mounted = TRUE
    /\ booklet = TheBooklet
    /\ viewDeps = ViewEffectDeps(TheBooklet, "loading")
    /\ viewCalls = 1
    /\ viewLog = << "loading" >>
    /\ doc \in VirtDocs
    /\ docPhase = "settled"
    /\ docFile = DocumentFile(TheBooklet, NoFile)
    /\ loadsStarted = 1
    /\ numPages = doc.numPages
    /\ pdfDimensions = FirstPageSize(doc)
    /\ currentPage = 0
    /\ isFullscreen = FALSE
    /\ loadStatus = "success"
    /\ win \in Viewports
    /\ timerPending = FALSE
    /\ windowSize = win
    /\ dims = ComputeDims(windowSize, pdfDimensions)
    /\ book = NewBook(dims)
    /\ zoom = InitialScale
    /\ fsElement = FALSE
    /\ pages = PagesOf(mounted, windowSize, dims, loadStatus, numPages, currentPage)
    /\ controls = ControlsOf(mounted, windowSize, dims, loadStatus, numPages,
                             currentPage)
    /\ debounce = NoTiming
    /\ ServiceAtRest
    /\ route = RouteOpen

VirtNext ==
    \/ ClickNext
    \/ ClickPrev
    \/ \E index \in VisiblePages(book, numPages) : PageClick(index)
    \/ FlipSettles

SpecVirt == VirtInit /\ [][VirtNext]_vars

----------------------------------------------------------------------------
(* useDebouncedResize under a clock: time passes in ticks, the timeout runs  *)
(* DelayTicks after it was armed, and a timeout that is due runs before the  *)
(* clock goes on                                                             *)

\* handleResize: clearTimeout(timeoutId), then setTimeout(..., delay): the
\* age of the armed timeout after a resize event
AgeAfterEventKept(pending, age) == IF pending THEN age ELSE 0
AgeAfterEvent(pending, age) == 0

\* the timeout armed by handleResize has run its delay
TimeoutDue(pending, age) == pending /\ age >= DelayTicks

\* the mount, with the load that the first render will start still to come
DebounceInit ==
    /\ Init
    /\ doc = FailDoc

\* window 'resize' event under the clock
DebounceResize(sz) ==
    /\ mounted
    /\ UNCHANGED << serviceVars, route >>
    /\ win' = sz
    /\ timerPending' = TRUE
    /\ debounce' = [debounce EXCEPT !.age = AgeAfterEvent(timerPending, @),
                                    !.quiet = 0,
                                    !.burst = Bump(@)]
    /\ UNCHANGED << mounted, booklet, viewDeps, viewCalls, viewLog, doc, docPhase,
                    docFile, loadsStarted, numPages, pdfDimensions, currentPage,
                    isFullscreen, loadStatus, windowSize, dims, book, zoom,
                    fsElement, pages, controls >>

\* one tick of time passes
DebounceTick ==
    /\ mounted
    /\ UNCHANGED << serviceVars, route >>
    /\ ~TimeoutDue(timerPending, debounce.age)
    /\ debounce' = [debounce EXCEPT !.age = IF timerPending THEN @ + 1 ELSE @,
                                    !.quiet = Min(@ + 1, DelayTicks)]
    /\ UNCHANGED << mounted, booklet, viewDeps, viewCalls, viewLog, doc, docPhase,
                    docFile, loadsStarted, numPages, pdfDimensions, currentPage,
                    isFullscreen, loadStatus, win, timerPending, windowSize, dims,
                    book, zoom, fsElement, pages, controls >>

\* the timeout runs: setSize({ width: innerWidth, height: innerHeight })
DebounceTimeout ==
    /\ mounted
    /\ UNCHANGED << serviceVars, route >>
    /\ TimeoutDue(timerPending, debounce.age)
    /\ timerPending' = FALSE
    /\ windowSize' = win
    /\ debounce' = [debounce EXCEPT !.age = 0, !.burst = 0,
                                    !.merged = debounce.burst]
    /\ UNCHANGED << mounted, booklet, doc, numPages, pdfDimensions, currentPage,
                    isFullscreen, loadStatus, win, fsElement >>
    /\ RenderAndEffects(book, zoom, docPhase)

DebounceNext ==
    \/ \E sz \in Viewports : DebounceResize(sz)
    \/ DebounceTick
    \/ DebounceTimeout

SpecDebounce == DebounceInit /\ [][DebounceNext]_vars

----------------------------------------------------------------------------
(* getBookletById over a store that uploads fill while time passes, in the   *)
(* Firestore mode and in the demo mode; no viewer is mounted                 *)

\* no FlipbookViewer on the screen
ViewerAbsent ==
    /\ mounted = FALSE
    /\ booklet = TheBooklet
    /\ viewDeps = ViewEffectDeps(TheBooklet, "loading")
    /\ viewCalls = 0
    /\ viewLog = << >>
    /\ doc = FailDoc
    /\ docPhase = "idle"
    /\ docFile = NoFile
    /\ loadsStarted = 0
    /\ numPages = 0
    /\ pdfDimensions = Null
    /\ currentPage = 0
    /\ isFullscreen = FALSE
    /\ loadStatus = "loading"
    /\ win = Size(1920, 1080)
    /\ timerPending = FALSE
    /\ windowSize = Null
    /\ dims = Null
    /\ book = NoBook
    /\ zoom = InitialScale
    /\ fsElement = FALSE
    /\ pages = {}
    /\ controls = {}
    /\ debounce = NoTiming

LookupInit ==
    /\ ViewerAbsent
    /\ isDemo \in BOOLEAN
    /\ clock = 1
    /\ store = [id \in BookletIds |-> NoDoc]
    /\ viewedKeys = {}
    /\ lookup = NoLookup
    /\ recordLog = NoCalls
    /\ route = RouteClosed

\* time passes
ClockTick ==
    /\ clock < MaxTime
    /\ clock' = clock + 1
    /\ UNCHANGED << viewerVars, debounce, route, isDemo, store, viewedKeys, lookup,
                    recordLog >>

\* uploadPDF stores a booklet with the status and the schedule the owner chose
UploadBooklet(id, st, t) ==
    /\ store[id] = NoDoc
    /\ store' = [store EXCEPT ![id] = NewDoc(isDemo, st, t)]
    /\ UNCHANGED << viewerVars, debounce, route, isDemo, clock, viewedKeys, lookup,
                    recordLog >>

\* a getBookletById(id) call returns
LookupBooklet(id, fails) ==
    /\ lookup' = [ id |-> id, at |-> clock,
                   result |-> getBookletById(isDemo, store[id], clock, fails) ]
    /\ UNCHANGED << viewerVars, debounce, route, isDemo, clock, store, viewedKeys,
                    recordLog >>

LookupNext ==
    \/ ClockTick
    \/ \E id \in BookletIds, st \in Statuses, t \in 0 .. MaxTime :
          UploadBooklet(id, st, t)
    \/ \E id \in BookletIds, fails \in BOOLEAN : LookupBooklet(id, fails)

SpecLookup == LookupInit /\ [][LookupNext]_vars

----------------------------------------------------------------------------
(* recordView called again and again from one browser, on booklets that are  *)
(* in the store                                                              *)

\* recordView(id) for a booklet that exists
RecordView(id, ok) ==
    /\ store[id] # NoDoc
    /\ recordLog[id].calls < MaxCalls
    /\ viewedKeys' = viewedKeys \cup {id}
    /\ store' = IF ViewStored(isDemo, ok)
                THEN [store EXCEPT ![id] = ViewCounted(@, IsUnique(viewedKeys, id))]
                ELSE store
    /\ recordLog' = [recordLog EXCEPT
                       ![id].calls = @ + 1,
                       ![id].writes = IF ViewStored(isDemo, ok) THEN @ + 1 ELSE @]
    /\ UNCHANGED << viewerVars, debounce, route, isDemo, clock, lookup >>

ViewsNext ==
    \/ \E id \in BookletIds, st \in Statuses, t \in 0 .. MaxTime :
          UploadBooklet(id, st, t)
    \/ \E id \in BookletIds, ok \in BOOLEAN : RecordView(id, ok)

SpecViews == LookupInit /\ [][ViewsNext]_vars

----------------------------------------------------------------------------
(* ViewerRoute under changes of the route id, updates of the booklets list   *)
(* and returns of its getBookletById calls; the FlipbookViewer's own state   *)
(* is left out                                                               *)

RouteInit ==
    /\ ViewerAbsent
    /\ ServiceAtRest
    /\ \E id \in BookletIds, list \in SUBSET BookletIds :
          route = MountedRoute(id, list)

\* the location changes to /view/id: useParams yields the new id, the state
\* stays, the effect runs again
RouteChange(id) ==
    /\ route.mounted
    /\ id # route.id
    /\ route' = LoadBooklet([route EXCEPT !.id = id])
    /\ UNCHANGED << viewerVars, debounce, serviceVars >>

\* App hands down a new booklets list (setBooklets): the effect runs again
RouteBookletsUpdate(list) ==
    /\ route.mounted
    /\ route' = LoadBooklet([route EXCEPT !.booklets = list])
    /\ UNCHANGED << viewerVars, debounce, serviceVars >>

\* a getBookletById call of the effect returns a booklet (found) or null; the
\* continuation sets state only under its own isMounted
FetchReturns(f, found) ==
    /\ f \in route.fetches
    /\ route' = IF ~f.live THEN [route EXCEPT !.fetches = @ \ {f}]
                ELSE IF found
                THEN [route EXCEPT !.booklet = [id |-> f.id], !.status = "found",
                                   !.fetches = @ \ {f}]
                ELSE [route EXCEPT !.status = "error", !.fetches = @ \ {f}]
    /\ UNCHANGED << viewerVars, debounce, serviceVars >>

\* the location leaves /view/:id: ViewerRoute unmounts, the cleanup runs
RouteLeave ==
    /\ route.mounted
    /\ route' = [route EXCEPT !.mounted = FALSE,
                              !.fetches = { [f EXCEPT !.live = FALSE] : f \in @ }]
    /\ UNCHANGED << viewerVars, debounce, serviceVars >>

RouteNext ==
    \/ \E id \in BookletIds : RouteChange(id)
    \/ \E list \in SUBSET BookletIds : RouteBookletsUpdate(list)
    \/ \E f \in route.fetches, found \in BOOLEAN : FetchReturns(f, found)
    \/ RouteLeave

SpecRoute == RouteInit /\ [][RouteNext]_vars

----------------------------------------------------------------------------
(* Properties *)

\* C1: on a loaded document (numPages >= 1) the settled current page index is
\* within 0 .. numPages - 1 after any sequence of next / prev commands
C1_PageIndexInRange ==
    numPages >= 1 => currentPage >= 0 /\ currentPage <= numPages - 1

\* C1 witness: the book has been turned to its last page and rests there
C1_Witness ==
    /\ numPages >= 3
    /\ book # NoBook
    /\ book.flip = "none"
    /\ book.page = currentPage
    /\ NextSpreadPage(book) > numPages - 1

\* C2: for every viewport with W > 0 and H > 0 and every page ratio the page
\* box has pageWidth > 0 and pageHeight > 0
C2_BoxPositive ==
    (dims # Null /\ windowSize.width > 0 /\ windowSize.height > 0)
        => dims.pageWidth > 0 /\ dims.pageHeight > 0

\* C3: pages 0 and 1 are fully rendered for every current page index and every
\* page count: shouldRenderPage says so, and the rendered book has them
C3_FirstTwoAlwaysFull ==
    /\ \A cur \in 0 .. MaxPages : \A total \in 0 .. MaxPages :
          shouldRenderPage(0, cur, total) /\ shouldRenderPage(1, cur, total)
    /\ book # NoBook => \A i \in {0, 1} : i <= numPages - 1 => i \in pages

\* C3 witness: the book is far enough from the cover that page 1 is outside
\* the window around the current page, and it is rendered all the same
C3_Witness ==
    /\ book # NoBook
    /\ ~InRenderWindow(1, currentPage)
    /\ 1 \in pages
    /\ \E i \in 0 .. numPages - 1 : i \notin pages

\* C4: while a page turn is in progress the page box does not change
C4_NoBoxChangeMidFlip ==
    [][(book # NoBook /\ book.flip # "none") => dims' = dims]_vars

\* C5: the document is fetched and parsed exactly once in a session: once the
\* viewer is shown one load has started, no flip, resize, zoom or render-mode
\* change starts another, and pages are rasterized from that one load
C5_LoadedOnce ==
    /\ loadsStarted = IF windowSize = Null THEN 0 ELSE 1
    /\ pages # {} => docPhase = "settled"

\* C5 witness: after flips, a zoom and a change of a slot's render mode
C5_Witness ==
    /\ loadsStarted = 1
    /\ currentPage >= 5
    /\ 2 \notin pages
    /\ zoom # InitialScale
    /\ booklet.rev = 1

C7_ViewRecordedOnce == viewCalls = 1

\* C7 witness: after a load, a flip, a resize, a zoom, fullscreen and a
\* booklets-list update
C7_Witness ==
    /\ viewCalls = 1
    /\ loadStatus = "success"
    /\ currentPage > 0
    /\ zoom # InitialScale
    /\ isFullscreen
    /\ booklet.rev = 1
    /\ windowSize # Null

\* C8 as stated: a view is recorded only once the load has succeeded, and
\* none for a session whose load ends in error
C8_ViewOnlyOnSuccess ==
    /\ \A k \in 1 .. Len(viewLog) : viewLog[k] = "success"
    /\ loadStatus = "error" => viewCalls = 0

\* C8 amended: the view is recorded at the mount, while the load status is
\* still 'loading', and at no later transition
C8_ViewRecordedAtMount == viewLog = << "loading" >>

\* C8 witness: a session whose load ended in error has its view recorded
C8_Witness == loadStatus = "error" /\ Len(viewLog) = 1

\* C9 as stated: any failure (fetch, parse, first-page query) ends in 'error',
\* and 'success' comes with the document's page count and first-page size
C9_ErrorOnAnyFailure ==
    /\ (mounted /\ docPhase = "settled" /\ ~(doc.ok /\ doc.pageOk))
          => loadStatus = "error"
    /\ loadStatus = "success"
          => doc.ok /\ doc.pageOk /\ numPages = doc.numPages
             /\ pdfDimensions = doc.size

\* C9 amended: a fetch or parse failure ends in 'error', which stays and is
\* not retried; a failed first-page query still ends in 'success' with the
\* document's page count and the fallback page size 600 x 800
C9_LoadOutcome ==
    /\ [](/\ (mounted /\ docPhase = "settled")
               => IF doc.ok
                  THEN /\ loadStatus = "success"
                       /\ numPages = doc.numPages
                       /\ pdfDimensions = IF doc.pageOk THEN doc.size
                                          ELSE Size(600, 800)
                  ELSE loadStatus = "error"
          /\ loadStatus = "success" => doc.ok /\ docPhase = "settled"
          /\ loadStatus = "error" => ~doc.ok /\ loadsStarted = 1)
    /\ [][loadStatus = "error" => loadStatus' = "error" /\ loadsStarted' = loadsStarted]_vars

\* C9 witness: the first-page query failed and the session is in 'success'
C9_Witness ==
    /\ loadStatus = "success"
    /\ ~doc.pageOk
    /\ pdfDimensions = Size(600, 800)

\* C10 as stated: in the error state the close action is the only control
C10_OnlyCloseInError ==
    (mounted /\ loadStatus = "error")
        => controls \subseteq {"close", "title", "errorClose"}

\* C10 amended: in the error state the close controls plus the header's Share
\* and Download are actionable; page navigation, zoom and fullscreen are not
C10_ErrorAffordances ==
    (mounted /\ loadStatus = "error")
        => controls = {"close", "title", "errorClose", "share", "download"}

\* C10 witness: the error overlay is up
C10_Witness == mounted /\ loadStatus = "error" /\ "errorClose" \in controls

\* C11: for a window of zero (or negative) width or height the sizer yields
\* no box, and the flip surface of a loaded document is not rendered
C11_NotReadyOnDegenerate ==
    (windowSize # Null /\ (windowSize.width <= 0 \/ windowSize.height <= 0))
        => /\ dims = Null
           /\ ~FlipSurfaceShown(mounted, windowSize, dims, "success", 1)

FlipStep ==
    \/ ClickNext
    \/ ClickPrev
    \/ \E index \in 0 .. MaxPages : PageClick(index)
    \/ FlipSettles

\* C13: a page flip leaves the page box as it is, and the page box changes
\* only in a step that changes the viewport size or the page size (ratio)
C13_FlipKeepsBox ==
    [][/\ (FlipStep \/ currentPage' # currentPage) => dims' = dims
       /\ dims' # dims
             => windowSize' # windowSize \/ pdfDimensions' # pdfDimensions]_vars

\* C13 witness: a turn is in progress after an earlier one, the window has
\* another size by now, and the box is still the one of the stored size
C13_Witness ==
    /\ book # NoBook
    /\ book.flip # "none"
    /\ currentPage > 0
    /\ win # windowSize
    /\ dims = ComputeDims(windowSize, pdfDimensions)
    /\ dims # ComputeDims(win, pdfDimensions)

\* C15: the current page index changes only in a step in which a turn
\* animation completes, to the page that turn settles on; a command starting a
\* turn leaves it alone; and a turn that completes sets it, so the pages are
\* chosen against the index of a settled turn
C15_IndexOnlyOnSettle ==
    [][/\ currentPage' # currentPage
             => /\ book # NoBook
                /\ book.flip # "none"
                /\ currentPage' = FlipTarget(book)
       /\ (book # NoBook /\ book.flip = "none") => currentPage' = currentPage
       /\ (book # NoBook /\ book.flip # "none" /\ book' # NoBook
              /\ book'.key = book.key /\ book'.page # book.page)
             => /\ currentPage' = book'.page
                /\ pages' = { i \in 0 .. numPages - 1 :
                                shouldRenderPage(i, book'.page, numPages) }]_vars

\* C15 witness: a second turn is in progress and the index still is the page
\* the first turn settled on
C15_Witness ==
    /\ book # NoBook
    /\ book.flip = "next"
    /\ book.page >= 1
    /\ currentPage = book.page
    /\ FlipTarget(book) # currentPage

\* a 'next' / 'previous' command: an arrow or chevron click, or a click on a
\* page of the visible spread that handlePageClick turns into one
NextCommand ==
    \/ ClickNext
    \/ \E index \in 0 .. MaxPages : PageClickDir(index) = "next" /\ PageClick(index)
PrevCommand ==
    \/ ClickPrev
    \/ \E index \in 0 .. MaxPages : PageClickDir(index) = "prev" /\ PageClick(index)

\* the book rests on its last spread / on its cover
AtLastPage == book # NoBook /\ book.flip = "none" /\ NextSpreadPage(book) > numPages - 1
AtFirstPage == book # NoBook /\ book.flip = "none" /\ book.page = 0

C17_FullscreenFlagInSync == mounted => isFullscreen = fsElement

C19_DesktopSpread ==
    (windowSize = Size(1920, 1080) /\ pdfDimensions = Size(71, 100))
        => /\ dims # Null
           /\ ~dims.usePortrait
           /\ ~WidthBinds(windowSize, pdfDimensions)
           /\ Floor(WidthCapPct(windowSize, pdfDimensions) * windowSize.width, 100) = 806
           /\ dims.pageHeight = 884 /\ 886 - dims.pageHeight <= 2
           /\ dims.pageWidth = 628 /\ 629 - dims.pageWidth <= 2

\* C19 witness: the sizer has run for that window and that page
C19_Witness ==
    /\ windowSize = Size(1920, 1080)
    /\ pdfDimensions = Size(71, 100)
    /\ dims = PageBox(windowSize, pdfDimensions)
    /\ dims.pageWidth < 806

\* C20: a page of ratio 1.6 in a 375 x 812 window is laid out in single-page
\* mode with the width cap binding: the width is 336, which is the 338 of the
\* claim (90% of 375 is 337.5) less the flooring and the rounding to even
C20_MobileLandscape ==
    (windowSize = Size(375, 812) /\ pdfDimensions = Size(16, 10))
        => /\ dims # Null
           /\ dims.usePortrait
           /\ WidthBinds(windowSize, pdfDimensions)
           /\ WidthCapPct(windowSize, pdfDimensions) = 90
           /\ dims.pageWidth = 336 /\ 338 - dims.pageWidth <= 2
           /\ dims.pageHeight = 210

\* C20 witness: the sizer has run for the phone window and the landscape page
C20_Witness ==
    /\ windowSize = Size(375, 812)
    /\ pdfDimensions = Size(16, 10)
    /\ dims = PageBox(windowSize, pdfDimensions)
    /\ dims.pageHeight < dims.pageWidth

\* the step in which the resize hook stores a viewport size
SizeUpdate == timerPending /\ ~timerPending'

\* C16: resize events that follow one another in less than the delay produce
\* one viewport-size update: none while less than the delay has passed since
\* the last event, one exactly DelayTicks after the last event, which stores
\* the size the window has then and answers every event of the burst, and no
\* further one until the next event
C16_OneUpdatePerBurst ==
    /\ [](/\ timerPending => debounce.quiet <= DelayTicks
          /\ ~timerPending => windowSize = win /\ debounce.burst = 0)
    /\ [][/\ windowSize' # windowSize => SizeUpdate
          /\ debounce.quiet < DelayTicks => ~SizeUpdate
          /\ SizeUpdate => /\ debounce.quiet = DelayTicks
                           /\ windowSize' = win
                           /\ win' = win
                           /\ debounce'.merged = debounce.burst
          /\ (~timerPending /\ debounce'.burst = 0)
                => UNCHANGED << windowSize, timerPending >>]_vars

\* C16 witness: one update has answered a burst of three events, which left
\* the window at another size than the hook had stored before
C16_Witness ==
    /\ ~timerPending
    /\ debounce.merged >= 3
    /\ windowSize = win
    /\ dims = ComputeDims(win, pdfDimensions)

\* C21: the sizer selects single-page mode exactly when the page's ratio
\* width / height exceeds 1.2 or the window is less than 768 px wide, and the
\* two-page spread mode in every other case
C21_ModeSelection ==
    dims # Null
        => (dims.usePortrait
              <=> \/ 10 * pdfDimensions.width > 12 * pdfDimensions.height
                  \/ windowSize.width < 768)

\* C21 witness: a window exactly 768 px wide with a page of ratio exactly 1.2
\* is laid out as a spread
C21_Witness ==
    /\ windowSize = Size(768, 1024)
    /\ pdfDimensions = Size(6, 5)
    /\ dims # Null
    /\ ~dims.usePortrait

\* C22: for a window with W, H > 0 the page box keeps both caps, pageHeight
\* <= 82% of H and pageWidth <= 90% of W (single page) or 42% of W (spread),
\* and it is the height-constrained box unless that box is wider than the
\* width cap, in which case it is the width-constrained one
C22_BoxWithinCaps ==
    (dims # Null /\ windowSize.width > 0 /\ windowSize.height > 0)
        => LET W == windowSize.width
               H == windowSize.height
               pw == pdfDimensions.width
               ph == pdfDimensions.height
               cap == IF dims.usePortrait THEN 90 ELSE 42
           IN  /\ 100 * dims.pageHeight <= 82 * H
               /\ 100 * dims.pageWidth <= cap * W
               /\ ~dims.usePortrait => 2 * dims.pageWidth <= W
               /\ IF 82 * H * pw > cap * W * ph
                  THEN /\ dims.pageWidth = RoundEven((cap * W) \div 100)
                       /\ dims.pageHeight = RoundEven((cap * W * ph) \div (100 * pw))
                  ELSE /\ dims.pageHeight = RoundEven((82 * H) \div 100)
                       /\ dims.pageWidth = RoundEven((82 * H * pw) \div (100 * ph))

\* C22 witness: a spread whose width cap binds: an A4 page in a 768 x 1024
\* window is 322 px wide, not the 592 px the height alone would give
C22_Witness ==
    /\ windowSize = Size(768, 1024)
    /\ pdfDimensions = Size(595, 842)
    /\ dims # Null
    /\ ~dims.usePortrait
    /\ dims.pageWidth = 322
    /\ dims.pageHeight < 838

NeighbourPages(b, n) ==
    VisiblePages(b, n)
        \cup (IF CanFlip(b, "next", n)
              THEN VisiblePages([b EXCEPT !.page = NextSpreadPage(b)], n) ELSE {})
        \cup (IF CanFlip(b, "prev", n)
              THEN VisiblePages([b EXCEPT !.page = PrevSpreadPage(b)], n) ELSE {})

\* C24: with the book at rest, every page of the visible page or spread, of
\* the following one and of the preceding one is rendered in full, in
\* single-page mode and in spread mode with a cover
C24_NeighboursRendered ==
    (book # NoBook /\ book.flip = "none")
        => NeighbourPages(book, numPages) \subseteq pages

\* C25: a click on page 0 (the cover) issues 'next', a click on any other
\* even-indexed page (the right half of a spread) issues 'next', and a click
\* on an odd-indexed page (the left half) issues 'previous'
C25_ClickPolicy ==
    /\ [](/\ PageClickDir(0) = "next"
          /\ \A index \in 1 .. 49 :
                PageClickDir(index) = IF index % 2 = 0 THEN "next" ELSE "prev")
    /\ [][\A index \in 0 .. 49 :
            PageClick(index)
                => /\ book' = Flipped(book, IF index % 2 = 0 THEN "next" ELSE "prev",
                                      numPages)
                   /\ index % 2 = 0 => book'.flip # "prev"
                   /\ index % 2 = 1 => book'.flip # "next"]_vars

\* C25 witness: a spread is being turned back from its left page, which took
\* the click
C25_Witness ==
    /\ mounted
    /\ book # NoBook
    /\ ~book.portrait
    /\ book.flip = "prev"
    /\ book.page % 2 = 1
    /\ "page" \in controls

\* C26: the loading indicator, the error state and the flip surface are never
\* on the screen two at a time, and the loading indicator is there only while
\* the load has not settled
C26_ExclusiveOverlays ==
    LET loading == LoadingShown(mounted, windowSize, dims, loadStatus)
        error == ErrorShown(mounted, windowSize, loadStatus)
        surface == FlipSurfaceShown(mounted, windowSize, dims, loadStatus, numPages)
    IN  /\ ~(loading /\ error)
        /\ ~(loading /\ surface)
        /\ ~(error /\ surface)
        /\ loading => loadStatus = "loading"

\* C27: with a loaded book at rest, the 'next' controls are disabled exactly
\* when no forward turn is possible and the 'previous' controls exactly when
\* the book is on its cover, in single-page and in spread mode
C27_NavDisabledAtEnds ==
    (mounted /\ book # NoBook /\ book.flip = "none")
        => /\ "next" \notin controls <=> ~CanFlip(book, "next", numPages)
           /\ "prev" \notin controls <=> book.page = 0

\* C28: getBookletById never returns a booklet whose status is 'draft', nor
\* one whose status is 'scheduled' with a scheduledAt later than the time of
\* the call, in the Firestore mode and in the demo mode
C28_NoHiddenBooklet ==
    (lookup # NoLookup /\ lookup.result # Null)
        => /\ lookup.result.status # "draft"
           /\ ~(lookup.result.status = "scheduled"
                  /\ lookup.result.scheduledAt > lookup.at)

\* C30 as stated: over any sequence of recordView(id) calls from one browser
\* the views counter has gone up by one per call and the uniqueReaders
\* counter by at most one in all, in the Firestore and in the demo mode
C30_OneViewPerCall ==
    \A id \in BookletIds :
        store[id] # NoDoc
            => /\ store[id].views = recordLog[id].calls
               /\ store[id].uniqueReaders <= 1

\* C30 amended: the views counter has gone up by one for every call whose
\* write was stored (every call in the demo mode; in the Firestore mode every
\* call whose updateDoc was not rejected) and by nothing for the others, and
\* the uniqueReaders counter by at most one in all, which only the first call
\* from the browser can add
C30_OneViewPerStoredCall ==
    \A id \in BookletIds :
        store[id] # NoDoc
            => /\ store[id].views = recordLog[id].writes
               /\ recordLog[id].writes <= recordLog[id].calls
               /\ isDemo => store[id].views = recordLog[id].calls
               /\ store[id].uniqueReaders <= 1
               /\ store[id].uniqueReaders <= store[id].views
               /\ store[id].uniqueReaders = 1 => id \in viewedKeys

\* C30 witness: in the Firestore mode three calls were made, the write of the
\* first was rejected: two views and no unique reader are counted
C30_Witness ==
    /\ ~isDemo
    /\ store["b1"] # NoDoc
    /\ recordLog["b1"].calls = 3
    /\ store["b1"].views = 2
    /\ store["b1"].uniqueReaders = 0

\* C29: whenever ViewerRoute renders the viewer, the booklet it hands to it
\* has the id of the route parameter, for any interleaving of route changes,
\* booklets-list updates and returns of getBookletById calls
C29_ViewerShowsRouteId ==
    ViewerRendered(route) => route.booklet.id = route.id

====
